---- MODULE Spec2Model ----
(***************************************************************************)
(* Model of get-availability.ts (src/unnamed/part_000): the live pipeline  *)
(* runLiveMode (capture -> mutate -> replay -> decode) and the pure        *)
(* decoders offsetToTime / extractSlots it uses.                           *)
(*                                                                         *)
(* Strings the program inspects (URLs, JSON strings, times) are sequences  *)
(* of tokens, so that includes() and split(':') are computed.  A JSON text *)
(* and a JavaScript value share one record shape [t, s, n, o, a]:          *)
(*   t  the kind, s a string's tokens, n a number, o an object's members   *)
(*   as <<key, value>> pairs in textual / insertion order, a an array.     *)
(* A text may repeat a key or be no JSON at all; a value never does.       *)
(***************************************************************************)
EXTENDS Integers, Sequences, FiniteSets, TLC

\* ------------------------------------------------------------------------
\* Bounds of the model
\* ------------------------------------------------------------------------
\* number of requests the page's request feed delivers in one run
MaxRequests == 2
\* offsetToTime is called with every offset in -MaxOffset..MaxOffset
MaxOffset == 1500
\* extractSlots is called with every sequence of at most MaxDays days
MaxDays == 2
\* runHarMode is called with every log of at most MaxEntries entries
MaxEntries == 2

\* ------------------------------------------------------------------------
\* JavaScript values and JSON texts
\* ------------------------------------------------------------------------
Mk(t, s, n, o, a) == [t |-> t, s |-> s, n |-> n, o |-> o, a |-> a]
Str(s) == Mk("str", s, 0, <<>>, <<>>)
Num(n) == Mk("num", <<>>, n, <<>>, <<>>)
Obj(o) == Mk("obj", <<>>, 0, o, <<>>)
Arr(a) == Mk("arr", <<>>, 0, <<>>, a)
JTrue == Mk("true", <<>>, 0, <<>>, <<>>)
JFalse == Mk("false", <<>>, 0, <<>>, <<>>)
JNull == Mk("null", <<>>, 0, <<>>, <<>>)
Undefined == Mk("undefined", <<>>, 0, <<>>, <<>>)
\* a text that is not JSON
Garbage == Mk("garbage", <<>>, 0, <<>>, <<>>)
\* req.postData() of a request without a body
NoText == Mk("none", <<>>, 0, <<>>, <<>>)
\* a body of length 0
EmptyText == Mk("empty", <<>>, 0, <<>>, <<>>)

\* null or undefined: what ?. and ?? test for
Nullish(v) == v.t \in {"null", "undefined"}

\* JavaScript truthiness of a value, as used by `slot.isAvailable`, `!day0?.slots`
Truthy(v) ==
  CASE v.t \in {"null", "undefined", "false"} -> FALSE
    [] v.t = "num" -> v.n # 0
    [] v.t = "str" -> v.s # <<>>
    [] OTHER -> TRUE

\* own-property lookup on an object value: o[k]
HasKey(o, k) == \E i \in 1..Len(o) : o[i][1] = k
KeyIndex(o, k) == CHOOSE i \in 1..Len(o) : o[i][1] = k
Lookup(o, k) == IF HasKey(o, k) THEN o[KeyIndex(o, k)][2] ELSE Undefined

\* property write / object-literal member: an existing key keeps its place
\* and takes the new value, a new key is appended
Put(o, k, v) ==
  IF HasKey(o, k)
    THEN [i \in 1..Len(o) |-> IF o[i][1] = k THEN <<k, v>> ELSE o[i]]
    ELSE Append(o, <<k, v>>)

\* { ...a, ...b } : every member of b put into a, in b's order
RECURSIVE Spread(_, _)
Spread(a, b) == IF b = <<>> THEN a ELSE Spread(Put(a, b[1][1], b[1][2]), Tail(b))

\* v.k for a value that is not null/undefined (primitives have no such member)
Member(v, k) == IF v.t = "obj" THEN Lookup(v.o, k) ELSE Undefined
\* v?.k
OptMember(v, k) == IF Nullish(v) THEN Undefined ELSE Member(v, k)

\* JSON.parse: fails on a text that is not JSON; a repeated key keeps the
\* position of its first occurrence and the value of its last
RECURSIVE ParseValue(_)
RECURSIVE ParseMembers(_, _)
ParseMembers(acc, ms) ==
  IF ms = <<>> THEN acc
  ELSE ParseMembers(Put(acc, ms[1][1], ParseValue(ms[1][2])), Tail(ms))
ParseValue(x) ==
  CASE x.t = "obj" -> Obj(ParseMembers(<<>>, x.o))
    [] x.t = "arr" -> Arr([i \in 1..Len(x.a) |-> ParseValue(x.a[i])])
    [] OTHER -> x
IsJSON(text) == text.t \in {"obj", "arr", "str", "num", "true", "false", "null"}
JSONParse(text) ==
  IF IsJSON(text) THEN [ok |-> TRUE, v |-> ParseValue(text)]
  ELSE [ok |-> FALSE, v |-> Undefined]

\* JSON.stringify: members in insertion order, undefined members dropped
RECURSIVE Stringify(_)
RECURSIVE StringifyMembers(_)
StringifyMembers(ms) ==
  IF ms = <<>> THEN <<>>
  ELSE IF ms[1][2].t = "undefined" THEN StringifyMembers(Tail(ms))
  ELSE <<(<<ms[1][1], Stringify(ms[1][2])>>)>> \o StringifyMembers(Tail(ms))
Stringify(v) ==
  CASE v.t = "obj" -> Obj(StringifyMembers(v.o))
    [] v.t = "arr" -> Arr([i \in 1..Len(v.a) |->
                            IF v.a[i].t = "undefined" THEN JNull ELSE Stringify(v.a[i])])
    [] OTHER -> v

\* truthiness of a string that holds a text (or of null in its place), as
\* used by `!postData` and `!capturedBody`: false for null and for ""
NonEmptyText(text) == text.t \notin {"none", "empty"}

\* String.prototype.includes at token granularity
Includes(text, tok) == \E i \in 1..Len(text) : text[i] = tok

\* ------------------------------------------------------------------------
\* Time conversion: offsetToTime
\* ------------------------------------------------------------------------
DigitChars == <<"0", "1", "2", "3", "4", "5", "6", "7", "8", "9">>
IsDigit(c) == \E d \in 1..10 : DigitChars[d] = c
DigitVal(c) == (CHOOSE d \in 1..10 : DigitChars[d] = c) - 1
NaN == [nan |-> TRUE, n |-> 0]
Finite(n) == [nan |-> FALSE, n |-> n]

\* baseTime.split(':')
RECURSIVE SplitColon(_, _)
SplitColon(cur, cs) ==
  IF cs = <<>> THEN <<cur>>
  ELSE IF Head(cs) = ":" THEN <<cur>> \o SplitColon(<<>>, Tail(cs))
  ELSE SplitColon(Append(cur, Head(cs)), Tail(cs))

\* Number(part): decimal digits give their value, "" gives 0, anything else NaN
RECURSIVE DecimalValue(_, _)
DecimalValue(acc, cs) ==
  IF cs = <<>> THEN acc ELSE DecimalValue(acc * 10 + DigitVal(Head(cs)), Tail(cs))
ToNumber(cs) ==
  IF \A i \in 1..Len(cs) : IsDigit(cs[i]) THEN Finite(DecimalValue(0, cs)) ELSE NaN

\* the % of JavaScript: the result has the sign of the dividend
JsRem(a, b) == IF a >= 0 THEN a % b ELSE 0 - ((0 - a) % b)

\* String(n).padStart(2, '0') for 0 <= n
RECURSIVE DecimalChars(_)
DecimalChars(n) ==
  IF n < 10 THEN <<DigitChars[n + 1]>>
  ELSE Append(DecimalChars(n \div 10), DigitChars[(n % 10) + 1])
PadStart2(n) == IF n < 10 THEN <<"0">> \o DecimalChars(n) ELSE DecimalChars(n)

NaNTime == <<"N", "a", "N", ":", "N", "a", "N">>

\* String(n).padStart(2, '0') for any integer n
SignedPadStart2(n) == IF n < 0 THEN <<"-">> \o DecimalChars(0 - n) ELSE PadStart2(n)

\* the conversion with a single %: a negative total stays negative
offsetToTimeSingleModulo(baseTime, timeOffsetMinutes) ==
  LET parts == SplitColon(<<>>, baseTime)
      h == ToNumber(parts[1])
      m == IF Len(parts) >= 2 THEN ToNumber(parts[2]) ELSE NaN
  IN IF h.nan \/ m.nan THEN NaNTime
     ELSE LET totalMinutes == h.n * 60 + m.n + timeOffsetMinutes
              wrapped == JsRem(totalMinutes, 24 * 60)
              hh == IF wrapped >= 0 THEN wrapped \div 60
                    ELSE 0 - (((0 - wrapped) + 59) \div 60)
              mm == JsRem(wrapped, 60)
          IN SignedPadStart2(hh) \o <<":">> \o SignedPadStart2(mm)

offsetToTime(baseTime, timeOffsetMinutes) ==
  LET parts == SplitColon(<<>>, baseTime)
      h == ToNumber(parts[1])
      m == IF Len(parts) >= 2 THEN ToNumber(parts[2]) ELSE NaN
  IN IF h.nan \/ m.nan THEN NaNTime
     ELSE LET totalMinutes == h.n * 60 + m.n + timeOffsetMinutes
              wrapped == JsRem(JsRem(totalMinutes, 24 * 60) + 24 * 60, 24 * 60)
              hh == wrapped \div 60
              mm == JsRem(wrapped, 60)
          IN PadStart2(hh) \o <<":">> \o PadStart2(mm)

\* ------------------------------------------------------------------------
\* Slot decoding: extractSlots
\* ------------------------------------------------------------------------
\* the outcome of a call: a returned sequence of slots, or a thrown TypeError
Returned(slots) == [threw |-> FALSE, slots |-> slots]
Threw == [threw |-> TRUE, slots |-> <<>>]

\* v?.[0] : first element of an array, member "0" of an object, first
\* character of a string
OptIndex0(v) ==
  CASE v.t = "arr" -> IF Len(v.a) > 0 THEN v.a[1] ELSE Undefined
    [] v.t = "obj" -> Lookup(v.o, "0")
    [] v.t = "str" -> IF Len(v.s) > 0 THEN Str(<<v.s[1]>>) ELSE Undefined
    [] OTHER -> Undefined

\* what `for (const slot of x)` iterates: the elements of an array, the
\* characters of a string
Iterable(v) == v.t \in {"arr", "str"}
Elements(v) == IF v.t = "arr" THEN v.a ELSE [i \in 1..Len(v.s) |-> Str(<<v.s[i]>>)]

\* the test of a slot without the typeof check of its offset
SlotIncludedAnyOffset(slot) == Truthy(Member(slot, "isAvailable"))

\* slot.isAvailable && typeof slot.timeOffsetMinutes === 'number'
SlotIncluded(slot) ==
  /\ Truthy(Member(slot, "isAvailable"))
  /\ Member(slot, "timeOffsetMinutes").t = "num"

\* slot.type ?? 'Standard'
SlotType(slot) ==
  IF Nullish(Member(slot, "type")) THEN Str(<<"Standard">>) ELSE Member(slot, "type")

DecodeSlot(slot, baseTime) ==
  [time |-> offsetToTime(baseTime.s, Member(slot, "timeOffsetMinutes").n),
   type |-> SlotType(slot)]

RECURSIVE DecodeSlots(_, _)
DecodeSlots(slots, baseTime) ==
  IF slots = <<>> THEN <<>>
  ELSE IF SlotIncluded(Head(slots))
    THEN <<DecodeSlot(Head(slots), baseTime)>> \o DecodeSlots(Tail(slots), baseTime)
    ELSE DecodeSlots(Tail(slots), baseTime)

\* a selection that never looks at dayOffset
FindDay0Never(days) == 0

\* days.find((d) => d.dayOffset === 0): index of the first such day, 0 if none
IsDay0(d) == Member(d, "dayOffset") = Num(0)
FindDay0(days) ==
  IF \E i \in 1..Len(days) : IsDay0(days[i])
    THEN CHOOSE i \in 1..Len(days) :
           IsDay0(days[i]) /\ \A j \in 1..(i - 1) : ~IsDay0(days[j])
    ELSE 0

\* the decoding without the `?? []` default and without the `?.` on day0
extractSlotsNoDefault(res, baseTime, requestedDate) ==
  IF Nullish(res) THEN Threw
  ELSE
  LET days == OptMember(OptIndex0(OptMember(Member(res, "data"), "availability")),
                        "availabilityDays")
  IN IF days.t # "arr" THEN Threw
     ELSE
     LET ds == days.a
         first == IF \E i \in 1..Len(ds) : IsDay0(ds[i])
                    THEN CHOOSE i \in 1..Len(ds) :
                           IsDay0(ds[i]) /\ \A j \in 1..(i - 1) : ~IsDay0(ds[j])
                    ELSE 0
         scanned == IF first = 0 THEN Len(ds) ELSE first
     IN IF \E i \in 1..scanned : Nullish(ds[i]) THEN Threw
        ELSE
        LET day0 == IF first # 0 THEN ds[first]
                    ELSE IF Len(ds) > 0 THEN ds[1] ELSE Undefined
        IN IF Nullish(day0) THEN Threw
           ELSE
           LET slots == Member(day0, "slots")
           IN IF ~Truthy(slots) THEN Returned(<<>>)
              ELSE IF ~Iterable(slots) THEN Threw
              ELSE
              LET es == Elements(slots)
              IN IF \E i \in 1..Len(es) : Nullish(es[i]) THEN Threw
                 ELSE IF baseTime.t # "str" /\ \E i \in 1..Len(es) : SlotIncluded(es[i])
                   THEN Threw
                 ELSE Returned(DecodeSlots(es, baseTime))

extractSlots(res, baseTime, requestedDate) ==
  IF Nullish(res) THEN Threw
  ELSE
  LET avd == OptMember(OptIndex0(OptMember(Member(res, "data"), "availability")),
                       "availabilityDays")
      days == IF Nullish(avd) THEN Arr(<<>>) ELSE avd
  IN IF days.t # "arr" THEN Threw
     ELSE
     LET ds == days.a
         k == FindDay0(ds)
         scanned == IF k = 0 THEN Len(ds) ELSE k
     IN IF \E i \in 1..scanned : Nullish(ds[i]) THEN Threw
        ELSE
        LET day0 == IF k # 0 THEN ds[k]
                    ELSE IF Len(ds) > 0 THEN ds[1] ELSE Undefined
            slots == OptMember(day0, "slots")
        IN IF ~Truthy(slots) THEN Returned(<<>>)
           ELSE IF ~Iterable(slots) THEN Threw
           ELSE
           LET es == Elements(slots)
           IN IF \E i \in 1..Len(es) : Nullish(es[i]) THEN Threw
              ELSE IF baseTime.t # "str" /\ \E i \in 1..Len(es) : SlotIncluded(es[i])
                THEN Threw
              ELSE Returned(DecodeSlots(es, baseTime))

\* ------------------------------------------------------------------------
\* Live mode: constants and the data of one run
\* ------------------------------------------------------------------------
GQL_URL ==
  <<"https://www.opentable.com/dapi/fe/gql?optype=query&opname=", "RestaurantsAvailability">>
OtherGqlUrl ==
  <<"https://www.opentable.com/dapi/fe/gql?optype=query&opname=", "Autocomplete">>
RestaurantUrl == <<"https://www.opentable.com/", "cascal">>

\* the arguments of runLiveMode
Dates == {<<"2026-02-26">>}
PartySizes == {2, 4}

\* what the runtime does with a promise rejected while no handler is attached:
\* raise it as an uncaught exception (the default since Node 15) or warn only
RejectionModes == {"throw", "warn"}

\* k.toLowerCase() on the header names of the model
ToLowerCase(k) == IF k = "Content-Type" THEN "content-type" ELSE k

Whitelist ==
  {"content-type", "x-csrf-token", "origin", "referer", "ot-page-group", "ot-page-type"}

\* request bodies seen on the wire
PersistedQuery == Obj(<< <<"version", Num(1)>>, <<"sha256Hash", Str(<<"e6b87021">>)>> >>)
Extensions == Obj(<< <<"persistedQuery", PersistedQuery>> >>)
OperationName == Str(<<"RestaurantsAvailability">>)
BodyFull ==
  Obj(<< <<"operationName", OperationName>>,
         <<"variables",
           Obj(<< <<"date", Str(<<"2026-02-20">>)>>,
                  <<"time", Str(<<"1", "8", ":", "3", "0">>)>>,
                  <<"partySize", Num(2)>>,
                  <<"forwardMinutes", Num(150)>>,
                  <<"restaurantIds", Arr(<<Num(7)>>)>> >>)>>,
         <<"extensions", Extensions>> >>)
\* a body that repeats a key and names no time
BodyRepeat ==
  Obj(<< <<"operationName", OperationName>>,
         <<"variables",
           Obj(<< <<"date", Str(<<"2026-02-20">>)>>,
                  <<"onlyPop", JFalse>>,
                  <<"date", Str(<<"2026-02-21">>)>> >>)>>,
         <<"extensions", Extensions>> >>)
\* a body without variables
BodyNoVariables == Obj(<< <<"operationName", OperationName>>, <<"extensions", Extensions>> >>)
Bodies == {BodyFull, BodyRepeat, BodyNoVariables, JNull, Garbage}

\* request headers as the browser reports them (names lower-cased), in order
HeadersA ==
  << <<"accept", <<"*/*">> >>,
     <<"content-type", <<"text/plain;charset=UTF-8">> >>,
     <<"x-csrf-token", <<"tok-1">> >>,
     <<"referer", <<"https://www.opentable.com/", "elsewhere">> >>,
     <<"cookie", <<"sid=1">> >> >>
HeadersB ==
  << <<"ot-page-group", <<"rest-profile">> >>,
     <<"ot-page-type", <<"restprofilepage">> >>,
     <<"origin", <<"https://www.opentable.com">> >>,
     <<"user-agent", <<"Mozilla/5.0">> >> >>

Request(method, requrl, postData, headers) ==
  [method |-> method, url |-> requrl, postData |-> postData, headers |-> headers]

\* the requests the page may issue while it loads
Requests ==
  { Request("POST", GQL_URL, BodyFull, HeadersA),
    Request("POST", GQL_URL, BodyRepeat, HeadersB),
    Request("POST", GQL_URL, BodyNoVariables, HeadersA),
    Request("POST", GQL_URL, JNull, HeadersB),
    Request("POST", GQL_URL, Garbage, HeadersA),
    Request("POST", GQL_URL, NoText, HeadersA),
    Request("POST", GQL_URL, EmptyText, HeadersB),
    Request("PUT", GQL_URL, BodyRepeat, HeadersA),
    Request("GET", GQL_URL, NoText, HeadersB),
    Request("POST", OtherGqlUrl, BodyNoVariables, HeadersB) }

\* replies of the endpoint
Slot(avail, off) == Obj(<< <<"isAvailable", avail>>, <<"timeOffsetMinutes", Num(off)>> >>)
TypedSlot(avail, off, type) == Obj(Append(Slot(avail, off).o, <<"type", Str(<<type>>)>>))
Day(off, slots) == Obj(<< <<"dayOffset", Num(off)>>, <<"slots", Arr(slots)>> >>)
ResponseOf(days) ==
  Obj(<< <<"data",
           Obj(<< <<"availability",
                    Arr(<< Obj(<< <<"restaurantId", Num(7)>>,
                                  <<"availabilityDays", Arr(days)>> >>) >>)>> >>)>> >>)
ResTextSlots ==
  ResponseOf(<< Day(1, <<Slot(JTrue, 15)>>),
                Day(0, << TypedSlot(JTrue, 0, "Standard"),
                          Slot(JFalse, 30),
                          TypedSlot(JTrue, 345, "Experience"),
                          Slot(JTrue, 0 - 1140) >>) >>)
ResTextErrors == Obj(<< <<"errors", Arr(<<Str(<<"PersistedQueryNotFound">>)>>)>> >>)
Reply(ok, text) == [ok |-> ok, text |-> text]
Replies ==
  { Reply(TRUE, ResTextSlots), Reply(TRUE, Obj(<<>>)), Reply(TRUE, JNull),
    Reply(TRUE, Garbage), Reply(FALSE, ResTextErrors), Reply(FALSE, Garbage) }
NoReply == Reply(FALSE, NoText)

\* ------------------------------------------------------------------------
\* Live mode: the steps of runLiveMode as operators
\* ------------------------------------------------------------------------
\* the handler without its test of the method
IsCapturableAnyMethod(req) ==
  /\ Includes(req.url, "RestaurantsAvailability")
  /\ NonEmptyText(req.postData)

\* the request handler's three early returns
IsCapturable(req) ==
  /\ req.method = "POST"
  /\ Includes(req.url, "RestaurantsAvailability")
  /\ NonEmptyText(req.postData)

\* the handler's header loop: headersObj[k] = v for the whitelisted names
RECURSIVE CopyHeaders(_, _)
CopyHeaders(headersObj, raw) ==
  IF raw = <<>> THEN headersObj
  ELSE CopyHeaders(IF ToLowerCase(raw[1][1]) \in Whitelist
                     THEN Put(headersObj, raw[1][1], raw[1][2])
                     ELSE headersObj,
                   Tail(raw))

\* a result slot that the last writer wins
SettleLastWins(state, to) == to

\* resolve / reject of a promise: only a pending promise changes state
Settle(state, to) == IF state = "pending" THEN to ELSE state

\* clearTimeout(t): disarms a timer that has not fired
ClearTimeout(t) == IF t = "armed" THEN "cleared" ELSE t

\* page.goto without the .catch: a failed navigation throws
GotoNoCatch(result) == IF result = "failed" THEN "throw" ELSE "continue"

\* page.goto(...).catch(() => {}): whatever navigation did, the run goes on
GotoCatch(result) == "continue"

\* the variables written over the captured ones
NewVariables(date, partySize) ==
  << <<"date", Str(date)>>,
     <<"partySize", Num(partySize)>>,
     <<"forwardMinutes", Num(295)>>,
     <<"backwardMinutes", Num(1140)>>,
     <<"forwardTimeslots", Num(20)>>,
     <<"backwardTimeslots", Num(76)>> >>

\* the new variables alone, the captured ones dropped
MergeVariablesReplace(variables, date, partySize) == Obj(NewVariables(date, partySize))

\* { ...body.variables, date, partySize, ... }; the variables of the model are
\* an object or absent (spreading undefined copies nothing)
MergeVariables(variables, date, partySize) ==
  Obj(Spread(IF variables.t = "obj" THEN variables.o ELSE <<>>,
             NewVariables(date, partySize)))

\* a mutation that takes an unparsable body for an empty object
MutateBodyLenient(capturedBody, date, partySize) ==
  LET body == Obj(<< <<"variables", MergeVariables(Undefined, date, partySize)>> >>)
  IN [status |-> "ok", body |-> body, text |-> Stringify(body)]

\* JSON.parse(capturedBody), body.variables = {...}, JSON.stringify(body):
\*   "invalid"    the parse threw (caught: close, exit 1)
\*   "typeError"  the parsed body is null, so reading body.variables throws
\*   "ok"         body is the mutated object and text its serialisation
MutateBody(capturedBody, date, partySize) ==
  LET parsed == JSONParse(capturedBody)
  IN IF ~parsed.ok THEN [status |-> "invalid", body |-> Undefined, text |-> NoText]
     ELSE IF parsed.v.t # "obj"
       THEN [status |-> "typeError", body |-> parsed.v, text |-> NoText]
     ELSE LET body == Obj(Put(parsed.v.o, "variables",
                              MergeVariables(Member(parsed.v, "variables"),
                                             date, partySize)))
          IN [status |-> "ok", body |-> body, text |-> Stringify(body)]

\* { ...capturedHeaders, 'Content-Type': ..., origin: ..., referer: url }
ReplayHeaders(capturedHeaders, referer) ==
  Put(Put(Put(capturedHeaders, "Content-Type", <<"application/json">>),
          "origin", <<"https://www.opentable.com">>),
      "referer", referer)

\* the checks on the reply without the test of the status
ReplayCheckNoStatus(reply) == IF ~JSONParse(reply.text).ok THEN "invalid" ELSE "ok"

\* the checks on the reply: response.ok(), then JSON.parse(resText)
ReplayCheck(reply) ==
  IF ~reply.ok THEN "http"
  ELSE IF ~JSONParse(reply.text).ok THEN "invalid"
  ELSE "ok"

\* (body.variables.time as string) ?? '19:00'
BaseTimeOf(body) ==
  LET time == Member(Member(body, "variables"), "time")
  IN IF Nullish(time) THEN Str(<<"1", "9", ":", "0", "0">>) ELSE time

\* ------------------------------------------------------------------------
\* offsetToTime called on its own: state
\* ------------------------------------------------------------------------
VARIABLES
  tpc,      \* "idle" (not called), "call" (arguments chosen), "done" (returned)
  tBase,    \* the argument baseTime
  tOffset,  \* the argument timeOffsetMinutes
  tResult   \* the returned string

timeVars == <<tpc, tBase, tOffset, tResult>>

TimeIdle == tpc = "idle" /\ tBase = <<>> /\ tOffset = 0 /\ tResult = <<>>

\* ------------------------------------------------------------------------
\* extractSlots called on its own: state
\* ------------------------------------------------------------------------
VARIABLES
  spc,      \* "idle" (not called), "call" (arguments chosen), "done" (ended)
  sRes,     \* the argument res
  sBase,    \* the argument baseTime
  sResult   \* how the call ended: Returned(slots) or Threw

slotVars == <<spc, sRes, sBase, sResult>>

SlotsIdle == spc = "idle" /\ sRes = Undefined /\ sBase = Undefined /\ sResult = Returned(<<>>)

\* ------------------------------------------------------------------------
\* HAR mode: state
\* ------------------------------------------------------------------------
VARIABLES
  hpc,          \* "idle" (not called), "filter" (before entries.filter), "loop"
                \* (inside the for loop), "done"
  entries,      \* har.log.entries
  filterDate,   \* argument filterDate, <<>> when there is no --date
  filterParty,  \* argument filterParty, 0 when there is no --party
  matches,      \* the local matches, as indices into entries
  idx,          \* position of the loop in matches
  baseTime,     \* the local baseTime
  reported,     \* the calls of printResult: [entry, date, slots, baseTime]
  failed,       \* the entries logged with 'Failed to parse HAR response'
  hOutcome      \* "running", "ok" (returned), "exit1" (process.exit(1))

harVars ==
  <<hpc, entries, filterDate, filterParty, matches, idx, baseTime, reported, failed,
    hOutcome>>

\* the locals of runHarMode before its first statement
HarFresh ==
  /\ matches = <<>>
  /\ idx = 0
  /\ baseTime = Undefined
  /\ reported = <<>>
  /\ failed = <<>>
  /\ hOutcome = "running"

\* runHarMode is not called
HarIdle ==
  /\ hpc = "idle"
  /\ entries = <<>>
  /\ filterDate = <<>>
  /\ filterParty = 0
  /\ HarFresh

\* the state of the entry points other than runLiveMode
otherVars == <<timeVars, slotVars, harVars>>

\* ------------------------------------------------------------------------
\* Live mode: state
\* ------------------------------------------------------------------------
VARIABLES
  pc,               \* where runLiveMode stands (its await points), "done" at the end
  outcome,          \* "running", or how the process ended: "ok" (exit 0), "exit1"
                    \* (process.exit(1)), "throw" (error out of runLiveMode, reported
                    \* by main().catch), "crash" (uncaught exception)
  err,              \* the failure that ended or will end the run, "none" if none
  date, partySize,  \* arguments of runLiveMode
  rejections,       \* the runtime's unhandled-rejection mode
  browser,          \* "none", "open", "closed"
  closeCount,       \* calls of browser.close()
  pageOpen,         \* the page is in context.pages()
  nav,              \* page.goto: "idle", "inflight", "ok", "failed"
  navStarts,        \* calls of page.goto
  captureNav,       \* nav at the moment capturePromise was resolved, "none" before
  timer,            \* the deadline timer t: "unset", "armed", "cleared", "fired"
  capture,          \* capturePromise: "none", "pending", "resolved", "rejected"
  captureValue,     \* the value capturePromise was resolved with
  observed,         \* the requests delivered to the handler so far, in order
  firedAt,          \* Len(observed) when the timer fired, -1 before
  capturedBody, capturedHeaders,  \* the locals of the same name
  body,             \* the local body after mutation
  requestBody,      \* the local requestBody
  posts,            \* the replay POSTs issued: [data, headers]
  response,         \* the reply to the replay POST
  printed           \* the results handed to printResult: [date, slots]

vars ==
  <<pc, outcome, err, date, partySize, rejections, browser, closeCount, pageOpen,
    nav, navStarts, captureNav, timer, capture, captureValue, observed, firedAt, capturedBody,
    capturedHeaders, body, requestBody, posts, response, printed, otherVars>>

liveVars ==
  <<pc, outcome, err, date, partySize, rejections, browser, closeCount, pageOpen,
    nav, navStarts, captureNav, timer, capture, captureValue, observed, firedAt,
    capturedBody, capturedHeaders, body, requestBody, posts, response, printed>>
inputVars == <<date, partySize, rejections>>
browserVars == <<browser, closeCount>>
navVars == <<nav, navStarts, captureNav>>
captureVars == <<timer, capture, captureValue, firedAt>>
localVars == <<capturedBody, capturedHeaders, body, requestBody>>
replayVars == <<posts, response, printed>>

\* the awaits of runLiveMode, during which timers and page events run
AwaitPoints == {"goto", "awaitCapture", "post", "closeExit", "closeRethrow", "finally"}

\* the locals of runLiveMode before its first statement
LiveFresh ==
  /\ outcome = "running"
  /\ err = "none"
  /\ browser = "none"
  /\ closeCount = 0
  /\ pageOpen = FALSE
  /\ nav = "idle"
  /\ navStarts = 0
  /\ captureNav = "none"
  /\ timer = "unset"
  /\ capture = "none"
  /\ captureValue = [body |-> NoText, headers |-> <<>>]
  /\ observed = <<>>
  /\ firedAt = 0 - 1
  /\ capturedBody = NoText
  /\ capturedHeaders = <<>>
  /\ body = Undefined
  /\ requestBody = NoText
  /\ posts = <<>>
  /\ response = NoReply
  /\ printed = <<>>

\* main() takes the live branch: runLiveMode is called with its arguments
LiveInit ==
  /\ pc = "launch"
  /\ date \in Dates
  /\ partySize \in PartySizes
  /\ rejections \in RejectionModes
  /\ LiveFresh

\* runLiveMode is not called
LiveIdle ==
  /\ pc = "idle"
  /\ date = <<>>
  /\ partySize = 0
  /\ rejections = "throw"
  /\ LiveFresh

Init == LiveInit /\ TimeIdle /\ SlotsIdle /\ HarIdle

\* ------------------------------------------------------------------------
\* Live mode: actions
\* ------------------------------------------------------------------------
\* chromium.launch succeeds (at the first attempt or with the chrome channel)
Launch ==
  /\ pc = "launch"
  /\ pc' = "setup"
  /\ browser' = "open"
  /\ UNCHANGED <<outcome, err, otherVars, inputVars, closeCount, pageOpen, navVars, captureVars,
                 observed, localVars, replayVars>>

\* chromium.launch throws: there is no browser to close
LaunchFails ==
  /\ pc = "launch"
  /\ pc' = "done"
  /\ outcome' = "throw"
  /\ err' = "launch"
  /\ UNCHANGED <<otherVars, inputVars, browserVars, pageOpen, navVars, captureVars, observed,
                 localVars, replayVars>>

\* a page.goto that is not awaited: the run goes on to the capture while the
\* navigation is in progress
SetUpNoAwait ==
  /\ pc = "setup"
  /\ pc' = "awaitCapture"
  /\ pageOpen' = TRUE
  /\ timer' = "armed"
  /\ capture' = "pending"
  /\ nav' = "inflight"
  /\ navStarts' = navStarts + 1
  /\ UNCHANGED <<outcome, err, otherVars, inputVars, browserVars, captureValue, firedAt, observed, captureNav,
                 localVars, replayVars>>

\* newContext, newPage, the capture promise with its timer and handler, and
\* the call of page.goto
SetUp ==
  /\ pc = "setup"
  /\ pc' = "goto"
  /\ pageOpen' = TRUE
  /\ timer' = "armed"
  /\ capture' = "pending"
  /\ nav' = "inflight"
  /\ navStarts' = navStarts + 1
  /\ UNCHANGED <<outcome, err, otherVars, inputVars, browserVars, captureValue, firedAt, observed, captureNav,
                 localVars, replayVars>>

\* newContext or newPage throws: caught by the capture-phase catch
SetUpFails ==
  /\ pc = "setup"
  /\ pc' = "closeRethrow"
  /\ err' = "setup"
  /\ UNCHANGED <<outcome, otherVars, inputVars, browserVars, pageOpen, navVars, captureVars,
                 observed, localVars, replayVars>>

\* page.on('request', ...): the handler runs for a request of the page
RequestObserved(req) ==
  /\ pc \in AwaitPoints
  /\ browser = "open"
  /\ pageOpen
  /\ capture # "none"
  /\ Len(observed) < MaxRequests
  /\ observed' = Append(observed, req)
  /\ IF IsCapturable(req)
       THEN /\ timer' = ClearTimeout(timer)
            /\ capture' = Settle(capture, "resolved")
            /\ captureValue' =
                 IF capture' = "resolved" /\ capture # "resolved"
                   THEN [body |-> req.postData,
                         headers |-> CopyHeaders(<<>>, req.headers)]
                   ELSE captureValue
            /\ captureNav' =
                 IF capture' = "resolved" /\ capture # "resolved" THEN nav ELSE captureNav
       ELSE UNCHANGED <<timer, capture, captureValue, captureNav>>
  /\ UNCHANGED <<pc, outcome, err, otherVars, inputVars, browserVars, pageOpen, nav, navStarts,
                 firedAt, localVars, replayVars>>

\* a timer whose callback does not reject capturePromise
TimerFiresNoReject ==
  /\ pc \in AwaitPoints
  /\ timer = "armed"
  /\ timer' = "fired"
  /\ firedAt' = Len(observed)
  /\ UNCHANGED <<pc, outcome, err, capture, otherVars, inputVars, browserVars, pageOpen, navVars,
                 captureValue, observed, localVars, replayVars>>

\* the 30 s timer fires and rejects capturePromise.  While page.goto is being
\* awaited nothing handles the rejection: the runtime either raises it as an
\* uncaught exception, which ends the process, or only warns
TimerFires ==
  /\ pc \in AwaitPoints
  /\ timer = "armed"
  /\ timer' = "fired"
  /\ capture' = Settle(capture, "rejected")
  /\ firedAt' = Len(observed)
  /\ IF pc = "goto" /\ capture' = "rejected" /\ rejections = "throw"
       THEN pc' = "done" /\ outcome' = "crash" /\ err' = "timeout"
       ELSE UNCHANGED <<pc, outcome, err>>
  /\ UNCHANGED <<otherVars, inputVars, browserVars, pageOpen, navVars, captureValue, observed,
                 localVars, replayVars>>

\* the page goes away while the run waits for the capture (closed by hand in
\* a headed browser)
PageCloses ==
  /\ pc \in {"goto", "awaitCapture"}
  /\ pageOpen
  /\ pageOpen' = FALSE
  /\ UNCHANGED <<pc, outcome, err, otherVars, inputVars, browserVars, navVars, captureVars,
                 observed, localVars, replayVars>>

\* page.goto settles: network idle reached, or rejected / timed out after 60 s
NavSettles(result) ==
  /\ pc = "goto"
  /\ result = "ok" => pageOpen
  /\ nav' = result
  /\ UNCHANGED captureNav
  /\ IF GotoCatch(result) = "continue"
       THEN pc' = "awaitCapture" /\ UNCHANGED err
       ELSE pc' = "closeRethrow" /\ err' = "navigation"
  /\ UNCHANGED <<outcome, otherVars, inputVars, browserVars, pageOpen, navStarts, captureVars,
                 observed, localVars, replayVars>>

\* await capturePromise throws the timeout error into the catch block
CaptureRejected ==
  /\ pc = "awaitCapture"
  /\ capture = "rejected"
  /\ pc' = "closeRethrow"
  /\ err' = "timeout"
  /\ UNCHANGED <<outcome, otherVars, inputVars, browserVars, pageOpen, navVars, captureVars,
                 observed, localVars, replayVars>>

\* await capturePromise returns; the run goes on, without another await, to
\* the next browser.close() or to page.request.post
CaptureResolved ==
  /\ pc = "awaitCapture"
  /\ capture = "resolved"
  /\ capturedBody' = captureValue.body
  /\ capturedHeaders' = captureValue.headers
  /\ LET m == MutateBody(captureValue.body, date, partySize)
     IN CASE ~NonEmptyText(captureValue.body) ->
               /\ pc' = "closeExit" /\ err' = "noCapture"
               /\ UNCHANGED <<outcome, body, requestBody, posts>>
          [] NonEmptyText(captureValue.body) /\ m.status = "invalid" ->
               /\ pc' = "closeExit" /\ err' = "invalidBody"
               /\ UNCHANGED <<outcome, body, requestBody, posts>>
          [] NonEmptyText(captureValue.body) /\ m.status = "typeError" ->
               /\ pc' = "done" /\ outcome' = "throw" /\ err' = "typeError"
               /\ UNCHANGED <<body, requestBody, posts>>
          [] NonEmptyText(captureValue.body) /\ m.status = "ok" ->
               /\ body' = m.body
               /\ requestBody' = m.text
               /\ UNCHANGED outcome
               /\ IF ~pageOpen
                    THEN pc' = "closeExit" /\ err' = "noPage" /\ UNCHANGED posts
                    ELSE /\ pc' = "post"
                         /\ posts' = Append(posts,
                              [url |-> GQL_URL, data |-> m.text,
                               headers |-> ReplayHeaders(captureValue.headers,
                                                         RestaurantUrl)])
                         /\ UNCHANGED err
  /\ UNCHANGED <<otherVars, inputVars, browserVars, pageOpen, navVars, captureVars, observed,
                 response, printed>>

\* page.request.post returns a reply; it is checked, decoded and printed
PostReturns(reply) ==
  /\ pc = "post"
  /\ response' = reply
  /\ LET check == ReplayCheck(reply)
         slots == extractSlots(JSONParse(reply.text).v, BaseTimeOf(body), date)
     IN CASE check = "http" ->
               pc' = "closeExit" /\ err' = "http" /\ UNCHANGED printed
          [] check = "invalid" ->
               pc' = "closeExit" /\ err' = "invalidResponse" /\ UNCHANGED printed
          [] check = "ok" /\ slots.threw ->
               pc' = "finally" /\ err' = "typeError" /\ UNCHANGED printed
          [] check = "ok" /\ ~slots.threw ->
               /\ pc' = "finally"
               /\ printed' = Append(printed, [date |-> date, slots |-> slots.slots])
               /\ UNCHANGED err
  /\ UNCHANGED <<outcome, otherVars, inputVars, browserVars, pageOpen, navVars, captureVars,
                 observed, localVars, posts>>

\* a replay that is issued again when it throws
PostThrowsRetry ==
  /\ pc = "post"
  /\ IF Len(posts) < 2
       THEN pc' = "post" /\ posts' = Append(posts, posts[1]) /\ UNCHANGED err
       ELSE pc' = "finally" /\ err' = "post" /\ UNCHANGED posts
  /\ UNCHANGED <<outcome, otherVars, inputVars, browserVars, pageOpen, navVars, captureVars,
                 observed, localVars, response, printed>>

\* page.request.post throws (network error, page gone)
PostThrows ==
  /\ pc = "post"
  /\ pc' = "finally"
  /\ err' = "post"
  /\ UNCHANGED <<outcome, otherVars, inputVars, browserVars, pageOpen, navVars, captureVars,
                 observed, localVars, replayVars>>

\* an exit that does not end the process at once: inside the replay block
\* the finally clause closes the browser again
CloseThenExitFinally ==
  /\ pc = "closeExit"
  /\ browser' = "closed"
  /\ closeCount' = IF err \in {"noPage", "http", "invalidResponse"}
                     THEN closeCount + 2 ELSE closeCount + 1
  /\ pc' = "done"
  /\ outcome' = "exit1"
  /\ UNCHANGED <<err, otherVars, inputVars, pageOpen, navVars, captureVars, observed, localVars,
                 replayVars>>

\* await browser.close(); process.exit(1)
CloseThenExit ==
  /\ pc = "closeExit"
  /\ browser' = "closed"
  /\ closeCount' = closeCount + 1
  /\ pc' = "done"
  /\ outcome' = "exit1"
  /\ UNCHANGED <<err, otherVars, inputVars, pageOpen, navVars, captureVars, observed, localVars,
                 replayVars>>

\* catch (err) { await browser.close(); throw err; }
CloseThenRethrow ==
  /\ pc = "closeRethrow"
  /\ browser' = "closed"
  /\ closeCount' = closeCount + 1
  /\ pc' = "done"
  /\ outcome' = "throw"
  /\ UNCHANGED <<err, otherVars, inputVars, pageOpen, navVars, captureVars, observed, localVars,
                 replayVars>>

\* finally { await browser.close(); } after the result was printed or an
\* error was thrown in the replay block
Finally ==
  /\ pc = "finally"
  /\ browser' = "closed"
  /\ closeCount' = closeCount + 1
  /\ pc' = "done"
  /\ outcome' = IF err = "none" THEN "ok" ELSE "throw"
  /\ UNCHANGED <<err, otherVars, inputVars, pageOpen, navVars, captureVars, observed, localVars,
                 replayVars>>

Next ==
  \/ Launch
  \/ LaunchFails
  \/ SetUp
  \/ SetUpFails
  \/ \E req \in Requests : RequestObserved(req)
  \/ TimerFires
  \/ PageCloses
  \/ \E result \in {"ok", "failed"} : NavSettles(result)
  \/ CaptureRejected
  \/ CaptureResolved
  \/ \E reply \in Replies : PostReturns(reply)
  \/ PostThrows
  \/ CloseThenExit
  \/ CloseThenRethrow
  \/ Finally

Spec == Init /\ [][Next]_vars

\* the steps the run takes by itself: the awaits of launch, newContext /
\* newPage and browser.close() return or throw, a rejected capturePromise is
\* thrown into its await
ProgramStep ==
  \/ Launch
  \/ LaunchFails
  \/ SetUp
  \/ SetUpFails
  \/ CaptureRejected
  \/ CloseThenExit
  \/ CloseThenRethrow
  \/ Finally
\* page.goto settles, at the latest at its 60 s timeout
NavSettlesSome == \E result \in {"ok", "failed"} : NavSettles(result)
\* page.request.post returns or throws
PostEnds == (\E reply \in Replies : PostReturns(reply)) \/ PostThrows

\* the states in which CaptureResolved can be taken: it has no other
\* condition, and taking it leaves them
CaptureResolvedEnabled == pc = "awaitCapture" /\ capture = "resolved"

\* a live run whose pending steps are eventually taken: an armed timer fires,
\* the navigation settles, the replay POST ends, a resolved capturePromise is
\* delivered to its await (weak fairness of CaptureResolved, written with its
\* enabling condition).  Requests of the page and the closing of the page are
\* up to the environment and may never happen
Fairness ==
  /\ WF_vars(ProgramStep)
  /\ []<>(~CaptureResolvedEnabled)
  /\ WF_vars(TimerFires)
  /\ WF_vars(NavSettlesSome)
  /\ WF_vars(PostEnds)
SpecFair == Init /\ [][Next]_vars /\ Fairness

\* ------------------------------------------------------------------------
\* Properties of the live run
\* ------------------------------------------------------------------------
\* a POST whose URL names the target operation
IsTargetPost(req) ==
  req.method = "POST" /\ Includes(req.url, "RestaurantsAvailability")
\* a request that carries a non-empty body
HasBody(req) == req.postData # NoText /\ req.postData # EmptyText
\* the requests observed before the deadline fired (all of them if it has not)
BeforeDeadline == IF firedAt < 0 THEN Len(observed) ELSE firedAt
\* the run is over, or on a path that ends it, in failure
Failing == err # "none"
Done == pc = "done"

\* C1: once the browser has been launched, every way the run can end has
\* browser.close() invoked before the process ends or the error leaves
\* runLiveMode.
C1_BrowserClosedOnEveryExit ==
  (Done /\ browser # "none") => closeCount >= 1

\* C2: the capture is a race with one outcome, decided by the first event.
\* A request with a body for the target operation observed before the
\* deadline resolves the capture, and then the timer neither fails the run
\* nor changes the captured value; a deadline that elapses first rejects it
\* with the timeout, and a request observed later never makes it a success.
C2_CaptureRaceOneOutcome ==
  /\ [](/\ (\E i \in 1..BeforeDeadline : IsTargetPost(observed[i]) /\ HasBody(observed[i]))
             <=> capture = "resolved"
        /\ capture = "resolved" => err # "timeout"
        /\ timer = "fired" <=> capture = "rejected"
        /\ err = "timeout" => capture = "rejected"
        /\ capture = "rejected" => posts = <<>> /\ capturedBody = NoText)
  /\ [][/\ capture = "resolved" => capture' = "resolved" /\ captureValue' = captureValue
        /\ capture = "rejected" => capture' = "rejected"]_vars

\* C2 witness: the deadline fired first and a request with a body for the
\* target operation is observed afterwards.
C2_Witness ==
  /\ capture = "rejected"
  /\ \E i \in (firedAt + 1)..Len(observed) : IsTargetPost(observed[i]) /\ HasBody(observed[i])

\* the name of every variable of either object
VariableNames(a, b) == {a.o[i][1] : i \in 1..Len(a.o)} \cup {b.o[i][1] : i \in 1..Len(b.o)}

\* C3: the body sent on replay has the operationName and the
\* extensions.persistedQuery (version and sha256Hash) of the captured body;
\* its variables are the captured ones with date, partySize, forwardMinutes,
\* backwardMinutes, forwardTimeslots and backwardTimeslots set to the new
\* values, every other captured variable keeping its captured value.
C3_MutationPreservesAndMerges ==
  \A i \in 1..Len(posts) :
    LET sent == JSONParse(posts[i].data).v
        cap == JSONParse(capturedBody).v
        sv == Member(sent, "variables")
        cv == Member(cap, "variables")
        spq == Member(Member(sent, "extensions"), "persistedQuery")
        cpq == Member(Member(cap, "extensions"), "persistedQuery")
    IN /\ JSONParse(posts[i].data).ok
       /\ Member(sent, "operationName") = Member(cap, "operationName")
       /\ spq = cpq
       /\ Member(spq, "version") = Member(cpq, "version")
       /\ Member(spq, "sha256Hash") = Member(cpq, "sha256Hash")
       /\ \A k \in VariableNames(sv, cv) :
            Member(sv, k) =
              CASE k = "date" -> Str(date)
                [] k = "partySize" -> Num(partySize)
                [] k = "forwardMinutes" -> Num(295)
                [] k = "backwardMinutes" -> Num(1140)
                [] k = "forwardTimeslots" -> Num(20)
                [] k = "backwardTimeslots" -> Num(76)
                [] OTHER -> Member(cv, k)
       /\ {"date", "partySize", "forwardMinutes", "backwardMinutes",
           "forwardTimeslots", "backwardTimeslots"} \subseteq VariableNames(sv, sv)

\* C3 witness: a replay was issued for a captured body that has a time, another
\* date and another forwardMinutes than the new ones.
C3_Witness ==
  /\ Len(posts) = 1
  /\ LET cv == Member(JSONParse(capturedBody).v, "variables")
     IN /\ Member(cv, "time") # Undefined
        /\ Member(cv, "date") # Str(date)
        /\ Member(cv, "forwardMinutes") = Num(150)

\* C4: when the deadline elapses with no matching request observed, the run
\* ends in failure: no replay POST is issued and no result is printed.
C4_TimeoutCancelsPipeline ==
  timer = "fired" =>
    /\ posts = <<>>
    /\ printed = <<>>
    /\ pc \notin {"post", "finally"}
    /\ Done => outcome \in {"throw", "crash"} /\ err = "timeout"

\* C4 witness: the deadline fired and the run has ended.
C4_Witness == timer = "fired" /\ Done /\ observed # <<>>

\* the first observed request that satisfies P, 0 if there is none
FirstBody(P(_)) ==
  IF \E i \in 1..Len(observed) : P(observed[i])
    THEN observed[CHOOSE i \in 1..Len(observed) :
                    P(observed[i]) /\ \A j \in 1..(i - 1) : ~P(observed[j])].postData
    ELSE NoText
FirstHeaders(P(_)) ==
  IF \E i \in 1..Len(observed) : P(observed[i])
    THEN observed[CHOOSE i \in 1..Len(observed) :
                    P(observed[i]) /\ \A j \in 1..(i - 1) : ~P(observed[j])].headers
    ELSE <<>>
IsTargetPostWithBody(req) == IsTargetPost(req) /\ HasBody(req)
InWhitelist(h) == h[1] \in Whitelist

\* C5 (as claimed): the captured request is the first observed POST whose URL
\* matches the target operation.
C5_FirstTargetPostCaptured ==
  capture = "resolved" => captureValue.body = FirstBody(IsTargetPost)

\* C5 (amended): the captured request is the first observed POST whose URL
\* matches the target operation and that carries a non-empty body; it is
\* written once, and no request observed afterwards changes the body or the
\* headers that are mutated and replayed.
C5_FirstTargetPostWithBodyCapturedOnce ==
  /\ [](/\ capture = "resolved" =>
             /\ captureValue.body = FirstBody(IsTargetPostWithBody)
             /\ captureValue.headers =
                  SelectSeq(FirstHeaders(IsTargetPostWithBody), InWhitelist)
        /\ capturedBody # NoText =>
             /\ capturedBody = FirstBody(IsTargetPostWithBody)
             /\ capturedHeaders =
                  SelectSeq(FirstHeaders(IsTargetPostWithBody), InWhitelist))
  /\ [][/\ capture = "resolved" => captureValue' = captureValue
        /\ capturedBody # NoText =>
             capturedBody' = capturedBody /\ capturedHeaders' = capturedHeaders]_vars

\* C5 witness: a target POST without a body was observed first, a later one
\* with a body was captured, and the run has gone on to the replay.
C5_Witness ==
  /\ Len(observed) = 2
  /\ IsTargetPost(observed[1]) /\ ~HasBody(observed[1])
  /\ capturedBody = observed[2].postData
  /\ Len(posts) = 1

\* C6: a failed navigation is never fatal by itself.  The run leaves the
\* capture phase in failure only by the timeout, with no request with a body
\* for the target operation observed before the deadline; once such a request
\* was observed in time the run goes on to mutation and replay whether
\* navigation succeeded or failed.
C6_NavigationFailureTolerated ==
  /\ (navStarts > 0 /\ (pc = "closeRethrow" \/ err \in {"navigation", "timeout"})) =>
       /\ err = "timeout"
       /\ timer = "fired"
       /\ \A i \in 1..BeforeDeadline : ~(IsTargetPost(observed[i]) /\ HasBody(observed[i]))
  /\ (nav \in {"ok", "failed"} /\ capture = "resolved") =>
       \/ pc = "awaitCapture"
       \/ capturedBody = captureValue.body /\ err \notin {"navigation", "timeout"}

\* C6 witness: navigation failed and the replay was issued all the same.
C6_Witness == nav = "failed" /\ Len(posts) = 1 /\ pc = "post"

\* the entries of a header mapping whose name is n, compared without case
Occurrences(headers, n) == {j \in 1..Len(headers) : ToLowerCase(headers[j][1]) = n}

\* C7: in the header mapping sent with the replay POST each of content-type,
\* origin and referer (names compared without case) occurs exactly once and
\* carries the canonical value; every other captured whitelisted header is
\* sent with its captured value; no header outside the whitelist is sent
\* from the capture.
C7_ReplayHeadersCanonical ==
  \A i \in 1..Len(posts) :
    LET sent == posts[i].headers
        canonical == [n \in {"content-type", "origin", "referer"} |->
                        CASE n = "content-type" -> <<"application/json">>
                          [] n = "origin" -> <<"https://www.opentable.com">>
                          [] n = "referer" -> RestaurantUrl]
    IN /\ \A n \in DOMAIN canonical :
            /\ Cardinality(Occurrences(sent, n)) = 1
            /\ \A j \in Occurrences(sent, n) : sent[j][2] = canonical[n]
       /\ \A j \in 1..Len(capturedHeaders) :
            ToLowerCase(capturedHeaders[j][1]) \in {"x-csrf-token", "ot-page-group", "ot-page-type"}
              => \E l \in 1..Len(sent) : sent[l] = capturedHeaders[j]
       /\ \A l \in 1..Len(sent) : ToLowerCase(sent[l][1]) \in Whitelist

\* C8: a replay whose status is not a success, or whose body is not JSON,
\* ends the run in failure with nothing printed; a result is printed only
\* after a successful status and a successful parse.
C8_BadReplyPrintsNothing ==
  /\ printed # <<>> => response.ok /\ response.text # Garbage /\ response # NoReply
  /\ (response # NoReply /\ (~response.ok \/ response.text = Garbage)) =>
       /\ printed = <<>>
       /\ pc \in {"closeExit", "done"}
       /\ err = IF response.ok THEN "invalidResponse" ELSE "http"
       /\ Done => outcome = "exit1"

\* C8 witness: a reply with a failure status and a JSON body ended the run.
C8_Witness == Done /\ ~response.ok /\ response.text = ResTextErrors

\* C9: if the captured body is not valid JSON the run fails at mutation: no
\* replay POST is issued and nothing is printed.
C9_InvalidCaptureStopsRun ==
  capturedBody = Garbage =>
    /\ posts = <<>>
    /\ printed = <<>>
    /\ err = "invalidBody"
    /\ pc \in {"closeExit", "done"}
    /\ Done => outcome = "exit1"

\* C9 witness: a body that is not JSON was captured and the run has ended.
C9_Witness == capturedBody = Garbage /\ Done

\* C10: there is no retry: navigation is started at most once, the replay
\* POST is issued at most once, and after a failure of the run no navigation
\* and no POST is started.
C10_NoRetry ==
  /\ [](navStarts <= 1 /\ Len(posts) <= 1)
  /\ [][(Failing \/ capture = "rejected") =>
          navStarts' = navStarts /\ posts' = posts]_vars

\* C10 witness: the replay POST threw, and the run ended with one navigation
\* and one POST.
C10_Witness == Done /\ err = "post" /\ navStarts = 1 /\ Len(posts) = 1

\* C19: in a live run browser.close() is invoked at most once: neither the
\* close before process.exit, nor the capture-phase catch, nor the
\* replay-phase finally closes the browser a second time.
C19_CloseAtMostOnce ==
  /\ closeCount <= 1
  /\ closeCount = 1 <=> browser = "closed"
  /\ pc \in {"closeExit", "closeRethrow", "finally"} => closeCount = 0

\* C19 witness: the replay was refused inside the replay block, where a
\* finally clause is pending, and the run ended with one close.
C19_Witness == Done /\ err = "http" /\ outcome = "exit1" /\ closeCount = 1

\* C20: the mutation and the replay POST start only after page.goto has
\* settled (resolved, or rejected / timed out): while the navigation is in
\* progress no body is mutated and no POST is issued, even when the target
\* request has already been observed.
C20_ReplayAfterNavigation ==
  /\ [](body # Undefined \/ requestBody # NoText \/ posts # <<>> \/ pc = "post"
          => nav \in {"ok", "failed"})
  /\ [][nav' = "inflight" =>
          body' = body /\ requestBody' = requestBody /\ posts' = posts]_vars

\* C20 witness: the captured request was observed during the navigation and
\* the POST was issued, after the navigation settled.
C20_Witness ==
  /\ Len(posts) = 1
  /\ nav \in {"ok", "failed"}
  /\ captureNav = "inflight"
  /\ \E i \in 1..Len(observed) :
       IsCapturable(observed[i]) /\ captureValue.body = observed[i].postData

\* a terminal state of a live run: a result was printed, or a failure was
\* reported (on stderr by the run, by main().catch or by the runtime)
PrintedResult == Done /\ outcome = "ok" /\ err = "none" /\ Len(printed) = 1
ReportedFailure == Done /\ outcome \in {"exit1", "throw", "crash"} /\ Failing
\* the run waits for a matching request
WaitsForRequest == pc \in {"goto", "awaitCapture"} /\ capture = "pending"

\* C21: under fairness (an armed timer fires, the navigation settles, the
\* replay POST returns or throws) every live run eventually reaches a terminal
\* state, a printed result or a reported failure, and never waits forever for
\* a matching request.
C21_RunTerminates == <>[](~WaitsForRequest /\ (PrintedResult \/ ReportedFailure))

\* C21 witness: no matching request was ever observed, the timer fired while
\* the run was waiting for the capture, and the run ended with the timeout
\* reported.
C21_Witness ==
  /\ ReportedFailure
  /\ err = "timeout"
  /\ outcome = "throw"
  /\ nav \in {"ok", "failed"}
  /\ \A i \in 1..Len(observed) : ~IsCapturable(observed[i])

\* ------------------------------------------------------------------------
\* offsetToTime called on its own
\* ------------------------------------------------------------------------
\* "HH:MM" for an hour and a minute
TwoDigits(n) == <<DigitChars[(n \div 10) + 1], DigitChars[(n % 10) + 1]>>
HHMM(h, m) == TwoDigits(h) \o <<":">> \o TwoDigits(m)

\* the well-formed base times and the offsets of the calls
Hours == {0, 9, 19, 23}
Minutes == {0, 5, 30, 59}
Offsets == ((0 - MaxOffset)..MaxOffset) \cup {0 - 100000, 0 - 2880, 2880, 100000}

\* the arguments of one call
TimeInit ==
  /\ tpc = "call"
  /\ \E h \in Hours, m \in Minutes : tBase = HHMM(h, m)
  /\ tOffset \in Offsets
  /\ tResult = <<>>
  /\ LiveIdle /\ SlotsIdle /\ HarIdle

\* the call returns
TimeCall ==
  /\ tpc = "call"
  /\ tResult' = offsetToTime(tBase, tOffset)
  /\ tpc' = "done"
  /\ UNCHANGED <<tBase, tOffset, liveVars, slotVars, harVars>>

SpecTime == TimeInit /\ [][TimeCall]_vars

\* C18: for every well-formed base time HH:MM and every integer offset,
\* offsetToTime returns the zero-padded HH:MM of (hour*60 + minute + offset)
\* wrapped into [0, 1440): ("19:00", 0) gives "19:00", ("23:30", 90) gives
\* "01:00", ("00:00", -30) gives "23:30".
C18_OffsetToTimeWraps ==
  tpc = "done" =>
    /\ \E h \in 0..23, m \in 0..59 :
         /\ tBase = HHMM(h, m)
         /\ LET w == (h * 60 + m + tOffset) % 1440
            IN tResult = HHMM(w \div 60, w % 60)
    /\ Len(tResult) = 5 /\ tResult[3] = ":"
    /\ (tBase = <<"1", "9", ":", "0", "0">> /\ tOffset = 0)
         => tResult = <<"1", "9", ":", "0", "0">>
    /\ (tBase = <<"2", "3", ":", "3", "0">> /\ tOffset = 90)
         => tResult = <<"0", "1", ":", "0", "0">>
    /\ (tBase = <<"0", "0", ":", "0", "0">> /\ tOffset = 0 - 30)
         => tResult = <<"2", "3", ":", "3", "0">>

\* C18 witness: a negative offset that takes the time before midnight.
C18_Witness ==
  /\ tpc = "done"
  /\ tBase = <<"0", "0", ":", "0", "0">>
  /\ tOffset = 0 - 30
  /\ tResult = <<"2", "3", ":", "3", "0">>

\* ------------------------------------------------------------------------
\* extractSlots called on its own
\* ------------------------------------------------------------------------
\* days of a response; the slots of different days have different offsets
DayExample == Day(0, << TypedSlot(JTrue, 0, "Standard"), Slot(JFalse, 30) >>)
DayLater == Day(1, << Slot(JTrue, 15) >>)
\* the days of the responses: with dayOffset 0, 1, 2 or none; with slots that
\* lack isAvailable, timeOffsetMinutes or type; with slots empty, null or absent
DayKinds ==
  { DayExample,
    DayLater,
    Day(0, << TypedSlot(JTrue, 60, "Standard"),
              Slot(JFalse, 75),
              TypedSlot(JTrue, 345, "Experience"),
              Slot(JTrue, 0 - 1140),
              Obj(<< <<"isAvailable", JTrue>>, <<"type", Str(<<"Standard">>)>> >>),
              Obj(<< <<"isAvailable", JTrue>>, <<"timeOffsetMinutes", JNull>> >>),
              Obj(<< <<"timeOffsetMinutes", Num(90)>> >>),
              Obj(<< <<"isAvailable", JTrue>>, <<"timeOffsetMinutes", Num(105)>>,
                     <<"type", JNull>> >>) >>),
    Day(2, << TypedSlot(JTrue, 120, "Experience"), Slot(JTrue, 135) >>),
    Obj(<< <<"dayOffset", Num(0)>> >>),
    Obj(<< <<"dayOffset", Num(1)>>, <<"slots", JNull>> >>),
    Day(0, <<>>),
    Obj(<< <<"slots", Arr(<< Slot(JTrue, 150) >>)>> >>) }

SeqsUpTo(S, n) == UNION {[1..k -> S] : k \in 0..n}

\* a response whose first availability element has the given availabilityDays
ResponseWith(avd) ==
  Obj(<< <<"data",
           Obj(<< <<"availability",
                    Arr(<< Obj(<< <<"restaurantId", Num(7)>>,
                                  <<"availabilityDays", avd>> >>) >>)>> >>)>> >>)
ResponseAvailability(av) == Obj(<< <<"data", Obj(<< <<"availability", av>> >>)>> >>)

\* responses that lack a part of the declared shape
SparseResponses ==
  { Obj(<<>>),
    Obj(<< <<"data", JNull>> >>),
    Obj(<< <<"data", Obj(<<>>)>> >>),
    ResponseAvailability(JNull),
    ResponseAvailability(Arr(<<>>)),
    ResponseAvailability(Arr(<<JNull>>)),
    ResponseAvailability(Arr(<< Obj(<< <<"restaurantId", Num(7)>> >>) >>)),
    ResponseWith(JNull) }

\* responses outside the declared shape
MalformedResponses ==
  { JNull,
    ResponseWith(Obj(<<>>)),
    ResponseWith(Arr(<<JNull>>)),
    ResponseWith(Arr(<< Obj(<< <<"dayOffset", Num(0)>>, <<"slots", Num(5)>> >>) >>)) }

SlotResponses ==
  {ResponseOf(ds) : ds \in SeqsUpTo(DayKinds, MaxDays)}
    \cup SparseResponses \cup MalformedResponses

BaseTimes == {Str(<<"1", "9", ":", "0", "0">>), Str(<<"1", "8", ":", "3", "0">>)}

\* the arguments of one call
SlotsInit ==
  /\ spc = "call"
  /\ sRes \in SlotResponses
  /\ sBase \in BaseTimes
  /\ sResult = Returned(<<>>)
  /\ LiveIdle /\ TimeIdle /\ HarIdle

SlotsCall ==
  /\ spc = "call"
  /\ sResult' = extractSlots(sRes, sBase, <<>>)
  /\ spc' = "done"
  /\ UNCHANGED <<sRes, sBase, liveVars, timeVars, harVars>>

SpecSlots == SlotsInit /\ [][SlotsCall]_vars

\* the day sequences the calls are made with
DaySeqs == SeqsUpTo(DayKinds, MaxDays)

\* the day the selection rule names: the first day whose dayOffset is 0, or
\* the first day of the sequence if there is none
ZeroDays(ds) == {i \in 1..Len(ds) : Lookup(ds[i].o, "dayOffset") = Num(0)}
SelectedDay(ds) ==
  IF ZeroDays(ds) # {}
    THEN CHOOSE i \in ZeroDays(ds) : \A j \in ZeroDays(ds) : i <= j
    ELSE 1
\* the slots a day lists
SlotsOfDay(day) ==
  IF Lookup(day.o, "slots").t = "arr" THEN Lookup(day.o, "slots").a ELSE <<>>
WithoutSlots(day) == SlotsOfDay(day) = <<>>
Range(f) == {f[i] : i \in DOMAIN f}

\* C15: extractSlots decodes the slots of the first day whose dayOffset is 0
\* among the availabilityDays of the first availability element; if no day
\* has dayOffset 0 it decodes the first day; no slot of another day appears
\* in the output.
C15_DaySelection ==
  spc = "done" =>
    \A ds \in DaySeqs :
      (sRes = ResponseOf(ds) /\ ds # <<>>) =>
        LET sel == SelectedDay(ds)
        IN /\ ~sResult.threw
           /\ sResult.slots = DecodeSlots(SlotsOfDay(ds[sel]), sBase)
           /\ \A j \in 1..Len(ds) :
                ds[j] # ds[sel] =>
                  Range(DecodeSlots(SlotsOfDay(ds[j]), sBase))
                    \cap Range(sResult.slots) = {}

\* C15 witness: the day with dayOffset 0 comes second and its one available
\* slot is the output.
C15_Witness ==
  /\ spc = "done"
  /\ sRes = ResponseOf(<<DayLater, DayExample>>)
  /\ sBase = Str(<<"1", "9", ":", "0", "0">>)
  /\ sResult = Returned(<< [time |-> <<"1", "9", ":", "0", "0">>,
                            type |-> Str(<<"Standard">>)] >>)

\* C17: extractSlots returns the empty sequence, and does not throw, when the
\* response has no data, no availability element, an empty or absent
\* availabilityDays, or a selected day without slots.
C17_EmptyNotError ==
  spc = "done" =>
    /\ sRes \in SparseResponses \cup {ResponseOf(<<>>)} => sResult = Returned(<<>>)
    /\ \A ds \in DaySeqs :
         (sRes = ResponseOf(ds) /\ ds # <<>> /\ WithoutSlots(ds[SelectedDay(ds)]))
           => sResult = Returned(<<>>)

\* C17 witness: the first availability element has no availabilityDays and
\* the call returned the empty sequence.
C17_Witness ==
  /\ spc = "done"
  /\ sRes = ResponseAvailability(Arr(<< Obj(<< <<"restaurantId", Num(7)>> >>) >>))
  /\ sResult = Returned(<<>>)

\* ------------------------------------------------------------------------
\* HAR mode: texts, entries and the steps of runHarMode as operators
\* ------------------------------------------------------------------------
\* the characters of a JSON text, at token granularity: punctuation, quotes,
\* the tokens of strings, the digits of numbers
Quote(s) == <<"\"">> \o s \o <<"\"">>
SignedDecimal(n) == IF n < 0 THEN <<"-">> \o DecimalChars(0 - n) ELSE DecimalChars(n)
RECURSIVE Render(_, _)
RECURSIVE RenderMembers(_, _)
RECURSIVE RenderElements(_, _)
RenderMembers(ms, spaced) ==
  IF ms = <<>> THEN <<>>
  ELSE Quote(<<ms[1][1]>>) \o <<":">> \o (IF spaced THEN <<" ">> ELSE <<>>)
         \o Render(ms[1][2], spaced)
         \o (IF Len(ms) > 1 THEN <<",">> ELSE <<>>)
         \o RenderMembers(Tail(ms), spaced)
RenderElements(es, spaced) ==
  IF es = <<>> THEN <<>>
  ELSE Render(es[1], spaced)
         \o (IF Len(es) > 1 THEN <<",">> ELSE <<>>)
         \o RenderElements(Tail(es), spaced)
Render(v, spaced) ==
  CASE v.t = "obj" -> <<"{">> \o RenderMembers(v.o, spaced) \o <<"}">>
    [] v.t = "arr" -> <<"[">> \o RenderElements(v.a, spaced) \o <<"]">>
    [] v.t = "str" -> Quote(v.s)
    [] v.t = "num" -> SignedDecimal(v.n)
    [] OTHER -> <<v.t>>

\* a request body text of the log: its characters and what JSON.parse makes
\* of them
CompactText(j) == [raw |-> Render(j, FALSE), json |-> j]
\* the same JSON written with a space after each colon
SpacedText(j) == [raw |-> Render(j, TRUE), json |-> j]
\* a text cut short of its last character: not JSON any more
CutText(j) ==
  [raw |-> SubSeq(Render(j, FALSE), 1, Len(Render(j, FALSE)) - 1), json |-> Garbage]
\* postData or postData.text absent
AbsentText == [raw |-> <<>>, json |-> NoText]
\* postData.text of length 0
BlankText == [raw |-> <<>>, json |-> EmptyText]

\* String.prototype.includes for a pattern of several tokens
IncludesText(text, pattern) ==
  \E i \in 0..(Len(text) - Len(pattern)) :
    SubSeq(text, i + 1, i + Len(pattern)) = pattern

\* `"date":"${filterDate}"` and `"partySize":${filterParty}`
DatePattern(fd) == Quote(<<"date">>) \o <<":">> \o Quote(fd)
PartyPattern(fp) == Quote(<<"partySize">>) \o <<":">> \o SignedDecimal(fp)

\* the callback of entries.filter
IsMatch(e, fd, fp) ==
  /\ e.method = "POST"
  /\ Includes(e.url, "RestaurantsAvailability")
  /\ NonEmptyText(e.response)
  /\ ~(/\ fd # <<>>
       /\ NonEmptyText(e.postData.json)
       /\ ~IncludesText(e.postData.raw, DatePattern(fd)))
  /\ ~(/\ fp > 0
       /\ NonEmptyText(e.postData.json)
       /\ ~IncludesText(e.postData.raw, PartyPattern(fp)))

\* entries.filter(...): the indices of the entries kept, in log order
RECURSIVE FilterFrom(_, _, _, _)
FilterFrom(es, i, fd, fp) ==
  IF i > Len(es) THEN <<>>
  ELSE IF IsMatch(es[i], fd, fp) THEN <<i>> \o FilterFrom(es, i + 1, fd, fp)
  ELSE FilterFrom(es, i + 1, fd, fp)

\* lines 188-197: baseTime after the first try block of the loop body
HarBaseTime(current, text) ==
  IF ~NonEmptyText(text.json) THEN current
  ELSE LET parsed == JSONParse(text.json)
       IN IF ~parsed.ok \/ Nullish(parsed.v) THEN current
          ELSE LET time == OptMember(Member(parsed.v, "variables"), "time")
               IN IF Truthy(time) THEN time ELSE current

\* lines 203-214: requestedDate
HarRequestedDate(fd, text) ==
  IF fd # <<>> THEN Str(fd)
  ELSE IF ~NonEmptyText(text.json) THEN Str(<<>>)
  ELSE LET p == JSONParse(text.json)
       IN IF ~p.ok \/ Nullish(p.v) THEN Str(<<>>)
          ELSE LET d == OptMember(Member(p.v, "variables"), "date")
               IN IF Nullish(d) THEN Str(<<>>) ELSE d

\* requestedDate || 'date-unknown'
DateOrUnknown(d) == IF Truthy(d) THEN d ELSE Str(<<"date-unknown">>)

\* a loop that goes on after a result was reported
HarBreakNever(fd, fp) == FALSE

\* if (filterDate || filterParty) break
HarBreak(fd, fp) == fd # <<>> \/ fp # 0

\* ------------------------------------------------------------------------
\* HAR mode: the logs and arguments of the calls
\* ------------------------------------------------------------------------
HarBody(variables) ==
  Obj(<< <<"operationName", OperationName>>, <<"variables", Obj(variables)>> >>)
VarsTimed ==
  << <<"date", Str(<<"2026-02-26">>)>>,
     <<"time", Str(<<"1", "8", ":", "3", "0">>)>>,
     <<"partySize", Num(2)>> >>
HarVariables(day, party) == << <<"date", Str(<<day>>)>>, <<"partySize", Num(party)>> >>
VarsEvening ==
  << <<"date", Str(<<"2026-02-26">>)>>,
     <<"time", Str(<<"2", "0", ":", "0", "0">>)>>,
     <<"partySize", Num(2)>> >>

\* a response with two available slots and one unavailable slot
HarResTwo ==
  ResponseOf(<< Day(0, << TypedSlot(JTrue, 0, "Standard"),
                          Slot(JFalse, 30),
                          TypedSlot(JTrue, 45, "Experience") >>) >>)

HarEntry(method, requrl, postData, resText) ==
  [method |-> method, url |-> requrl, postData |-> postData, response |-> resText]

\* the entries a log may hold
HarEntryKinds ==
  { HarEntry("POST", GQL_URL, CompactText(HarBody(VarsTimed)), HarResTwo),
    HarEntry("POST", GQL_URL, CompactText(HarBody(HarVariables("2026-02-27", 4))), ResTextSlots),
    HarEntry("POST", GQL_URL, SpacedText(HarBody(VarsEvening)), HarResTwo),
    HarEntry("POST", GQL_URL, CutText(HarBody(VarsTimed)), ResTextSlots),
    HarEntry("POST", GQL_URL, AbsentText, ResTextSlots),
    HarEntry("POST", GQL_URL, BlankText, HarResTwo),
    HarEntry("POST", GQL_URL, CompactText(HarBody(VarsTimed)), Garbage),
    HarEntry("POST", GQL_URL, CompactText(HarBody(HarVariables("2026-02-27", 4))), JNull),
    HarEntry("POST", GQL_URL, CompactText(HarBody(VarsTimed)), EmptyText),
    HarEntry("POST", GQL_URL, CompactText(HarBody(VarsTimed)), NoText),
    HarEntry("GET", GQL_URL, CompactText(HarBody(VarsTimed)), HarResTwo),
    HarEntry("POST", OtherGqlUrl, CompactText(HarBody(VarsTimed)), HarResTwo),
    HarEntry("POST", GQL_URL, CompactText(HarBody(HarVariables("2026-02-26", 20))), Obj(<<>>)),
    HarEntry("POST", GQL_URL, CompactText(JNull), HarResTwo) }

FilterDates == {<<>>, <<"2026-02-26">>}
FilterParties == {0, 2}

DefaultBaseTime == Str(<<"1", "9", ":", "0", "0">>)

\* main() takes the HAR branch: runHarMode is called with the parsed log
HarInit ==
  /\ hpc = "filter"
  /\ entries \in SeqsUpTo(HarEntryKinds, MaxEntries)
  /\ filterDate \in FilterDates
  /\ filterParty \in FilterParties
  /\ HarFresh
  /\ LiveIdle /\ TimeIdle /\ SlotsIdle

\* ------------------------------------------------------------------------
\* HAR mode: actions
\* ------------------------------------------------------------------------
\* entries.filter, the exit when nothing matches, and `let baseTime = '19:00'`
HarFilter ==
  /\ hpc = "filter"
  /\ matches' = FilterFrom(entries, 1, filterDate, filterParty)
  /\ IF matches' = <<>>
       THEN /\ hpc' = "done"
            /\ hOutcome' = "exit1"
            /\ UNCHANGED <<idx, baseTime>>
       ELSE /\ hpc' = "loop"
            /\ idx' = 1
            /\ baseTime' = DefaultBaseTime
            /\ UNCHANGED hOutcome
  /\ UNCHANGED <<entries, filterDate, filterParty, reported, failed, liveVars, timeVars,
                 slotVars>>

\* one pass of the for loop, up to its continue, its break or its end
HarStep ==
  /\ hpc = "loop"
  /\ LET i == matches[idx]
         e == entries[i]
         bt == HarBaseTime(baseTime, e.postData)
         res == JSONParse(e.response)
         requestedDate == HarRequestedDate(filterDate, e.postData)
         slots == extractSlots(res.v, bt, requestedDate)
         decoded == NonEmptyText(e.response) /\ res.ok /\ ~slots.threw
     IN /\ baseTime' = bt
        /\ CASE ~NonEmptyText(e.response) -> UNCHANGED <<reported, failed>>
             [] NonEmptyText(e.response) /\ ~decoded ->
                  failed' = Append(failed, i) /\ UNCHANGED reported
             [] decoded ->
                  /\ reported' = Append(reported,
                       [entry |-> i, date |-> DateOrUnknown(requestedDate),
                        slots |-> slots.slots, baseTime |-> bt])
                  /\ UNCHANGED failed
        /\ IF (decoded /\ HarBreak(filterDate, filterParty)) \/ idx = Len(matches)
             THEN hpc' = "done" /\ hOutcome' = "ok" /\ UNCHANGED idx
             ELSE idx' = idx + 1 /\ UNCHANGED <<hpc, hOutcome>>
  /\ UNCHANGED <<entries, filterDate, filterParty, matches, liveVars, timeVars, slotVars>>

HarNext == HarFilter \/ HarStep

SpecHar == HarInit /\ [][HarNext]_vars

\* ------------------------------------------------------------------------
\* Properties of HAR mode
\* ------------------------------------------------------------------------
\* the request variable time of an entry whose request body parses and has
\* one, "19:00" otherwise
OwnBaseTime(e) ==
  LET j == e.postData.json
      variables == IF j.t = "obj" THEN Lookup(j.o, "variables") ELSE Undefined
      time == IF variables.t = "obj" THEN Lookup(variables.o, "time") ELSE Undefined
  IN IF time.t = "str" /\ time.s # <<>> THEN time ELSE DefaultBaseTime

\* C11: the base time used to decode a matching entry is that entry's own
\* request variable time when its request body parses and has one, and
\* "19:00" otherwise, whatever entries were processed before it.
C11_BaseTimePerEntry ==
  \A k \in 1..Len(reported) :
    LET e == entries[reported[k].entry]
    IN /\ reported[k].baseTime = OwnBaseTime(e)
       /\ reported[k].slots =
            extractSlots(ParseValue(e.response), OwnBaseTime(e), <<>>).slots

\* the entries that were selected, decoded or reported
Selected == Range(matches) \cup Range(failed) \cup {reported[k].entry : k \in 1..Len(reported)}

\* the raw request body text of an entry contains the literal of every filter
\* that is set
ContainsFilters(e) ==
  /\ filterDate # <<>> => IncludesText(e.postData.raw, DatePattern(filterDate))
  /\ filterParty > 0 => IncludesText(e.postData.raw, PartyPattern(filterParty))

\* C12: with a date filter an entry is selected only if its raw request body
\* text contains "date":"<filterDate>", with a party filter only if it
\* contains "partySize":<filterParty>, whatever its request body (present,
\* empty or absent): an entry without the pattern is never decoded or
\* reported.
C12_FilterOnlyIfContains ==
  \A i \in Selected : ContainsFilters(entries[i])

\* an entry that is a POST to the target operation with a non-empty response
\* body
IsTargetEntry(e) ==
  /\ e.method = "POST"
  /\ Includes(e.url, "RestaurantsAvailability")
  /\ e.response \notin {NoText, EmptyText}

\* C14: HAR mode fails with the no-matching-entries error, and prints no
\* result, exactly when no entry of the log is a POST to the target operation
\* with a non-empty response body that passes the active filters.
C14_NoMatchingEntries ==
  hpc = "done" =>
    /\ hOutcome = "exit1" <=>
         ~\E i \in 1..Len(entries) :
            IsTargetEntry(entries[i]) /\ ContainsFilters(entries[i])
    /\ hOutcome = "exit1" => reported = <<>>

\* the response of an entry decodes: it parses and extractSlots returns
Decodes(e) ==
  /\ IsJSON(e.response)
  /\ ~extractSlots(ParseValue(e.response), DefaultBaseTime, <<>>).threw

FilterActive == filterDate # <<>> \/ filterParty # 0
\* the positions in matches of the entries that decode
DecodingAt == {k \in 1..Len(matches) : Decodes(entries[matches[k]])}
FirstDecoding == CHOOSE k \in DecodingAt : \A j \in DecodingAt : k <= j
ReportedEntries == [k \in 1..Len(reported) |-> reported[k].entry]
DecodesAt(i) == Decodes(entries[i])

\* the loop takes the matching entries in log order: what was reported or
\* logged as failed so far are the entries before the position of the loop
InLogOrder ==
  /\ \A k \in 1..(Len(matches) - 1) : matches[k] < matches[k + 1]
  /\ \A k \in 1..(Len(reported) - 1) : reported[k].entry < reported[k + 1].entry
  /\ hpc = "loop" =>
       Range(ReportedEntries) \cup Range(failed) = {matches[k] : k \in 1..(idx - 1)}
  /\ Range(ReportedEntries) \cap Range(failed) = {}

\* without a filter every matching entry whose response decodes is reported,
\* one result each, in log order
AllReported ==
  (hpc = "done" /\ hOutcome = "ok" /\ ~FilterActive) =>
    ReportedEntries = SelectSeq(matches, DecodesAt)

\* C13 as stated: matching entries are processed in log order; with a filter
\* active exactly one result is reported, that of the first matching entry
\* whose response decodes, and nothing after it is processed; without a
\* filter every matching entry that decodes is reported, in log order.
C13_ExactlyOneWhenFiltered ==
  /\ InLogOrder
  /\ AllReported
  /\ (hpc = "done" /\ hOutcome = "ok" /\ FilterActive) =>
       /\ Len(reported) = 1
       /\ DecodingAt # {}
       /\ reported[1].entry = matches[FirstDecoding]
       /\ idx = FirstDecoding

\* C13 amended: with a filter active at most one result is reported: that of
\* the first matching entry whose response decodes, after which nothing is
\* processed; if no matching entry decodes, nothing is reported and every
\* matching entry is logged as failed.
C13_AtMostOneWhenFiltered ==
  /\ InLogOrder
  /\ AllReported
  /\ FilterActive => Len(reported) <= 1
  /\ (hpc = "done" /\ hOutcome = "ok" /\ FilterActive) =>
       IF DecodingAt # {}
         THEN /\ Len(reported) = 1
              /\ reported[1].entry = matches[FirstDecoding]
              /\ idx = FirstDecoding
              /\ failed = SubSeq(matches, 1, FirstDecoding - 1)
         ELSE reported = <<>> /\ failed = matches

\* C13 witness: with a date filter, the first matching entry failed to decode,
\* the second was reported, and the run ended.
C13_Witness ==
  /\ hpc = "done"
  /\ filterDate # <<>>
  /\ matches = <<1, 2>>
  /\ failed = <<1>>
  /\ ReportedEntries = <<2>>

\* ------------------------------------------------------------------------
\* The offline pipeline: extractSlots on its own and inside runHarMode
\* ------------------------------------------------------------------------
OfflineInit == SlotsInit \/ HarInit
OfflineNext == SlotsCall \/ HarFilter \/ HarStep
SpecOffline == OfflineInit /\ [][OfflineNext]_vars

\* the availabilityDays of the first availability element of a response text
DaysIn(r) ==
  LET data == IF r.t = "obj" THEN Lookup(r.o, "data") ELSE Undefined
      availability == IF data.t = "obj" THEN Lookup(data.o, "availability") ELSE Undefined
      first == IF availability.t = "arr" /\ availability.a # <<>>
                 THEN availability.a[1] ELSE Undefined
      days == IF first.t = "obj" THEN Lookup(first.o, "availabilityDays") ELSE Undefined
  IN IF days.t = "arr" THEN days.a ELSE <<>>

\* a slot is offered: isAvailable is true and timeOffsetMinutes is a number
IsOffered(slot) ==
  /\ Lookup(slot.o, "isAvailable") = JTrue
  /\ Lookup(slot.o, "timeOffsetMinutes").t = "num"
Offered(day) == SelectSeq(SlotsOfDay(day), IsOffered)
TypeOrStandard(slot) ==
  IF Lookup(slot.o, "type").t = "str" THEN Lookup(slot.o, "type") ELSE Str(<<"Standard">>)
\* the offered slots of the selected day, in their order, each with its time
\* and type
ExpectedSlots(r, base) ==
  IF DaysIn(r) = <<>> THEN <<>>
  ELSE LET offered == Offered(DaysIn(r)[SelectedDay(DaysIn(r))])
       IN [k \in 1..Len(offered) |->
             [time |-> offsetToTime(base.s, Lookup(offered[k].o, "timeOffsetMinutes").n),
              type |-> TypeOrStandard(offered[k])]]

\* C16: the output of extractSlots is the subsequence of the selected day's
\* slots with isAvailable true and a numeric timeOffsetMinutes, in input
\* order, each mapped to its time offsetToTime(baseTime, timeOffsetMinutes)
\* and its type, "Standard" when absent; HAR mode on a log with one matching
\* entry reports exactly that sequence.
C16_FilteredSubsequence ==
  /\ (spc = "done" /\ sRes \notin MalformedResponses) =>
       sResult = Returned(ExpectedSlots(sRes, sBase))
  /\ (hpc = "done" /\ Len(matches) = 1 /\ Decodes(entries[matches[1]])) =>
       /\ Len(reported) = 1
       /\ reported[1].slots =
            ExpectedSlots(entries[matches[1]].response, OwnBaseTime(entries[matches[1]]))

\* C16 witness: a log whose one entry has a response with two available slots
\* and one unavailable slot was reported as two slots in their order.
C16_Witness ==
  /\ hpc = "done"
  /\ entries = <<HarEntry("POST", GQL_URL, CompactText(HarBody(VarsTimed)), HarResTwo)>>
  /\ Len(reported) = 1
  /\ reported[1].slots =
       << [time |-> <<"1", "8", ":", "3", "0">>, type |-> Str(<<"Standard">>)],
          [time |-> <<"1", "9", ":", "1", "5">>, type |-> Str(<<"Experience">>)] >>

====
